---- MODULE Spec2Model ----
(***************************************************************************)
(* rusty-board: the post ingestion pipeline (rb-api handlers::create_post), *)
(* the SQLite board repository (rb-db-sqlite), the local content-addressed *)
(* media store (rb-storage-local) and the simple identity provider         *)
(* (rb-auth-simple), as one state machine.  Every await point of the       *)
(* handler and of the ports is a step boundary, so that submissions served *)
(* by different workers interleave exactly where the program can suspend.  *)
(***************************************************************************)
EXTENDS Integers, Sequences, FiniteSets, TLC

VARIABLES
    sub,        \* per submission: the locals of handlers::create_post and of the port call in progress
    boards,     \* table boards (provisioned, never written by the pipeline)
    threads,    \* table threads, committed rows
    posts,      \* table posts, committed rows
    bans,       \* the ban set (models::Ban.ip_address)
    fs,         \* upload root: path -> "absent" | "partial" | "complete"
    saved,      \* history: the hashes some save_upload call has returned Ok for
    now,        \* last value read from the wall clock (Utc::now)
    uuidCtr,    \* number of UUIDv7 values generated so far (Uuid::now_v7)
    san,        \* a text on its way through sanitize_content: raw, after one pass, after two
    rd          \* the last read of the repository and what it returned

vars == <<sub, boards, threads, posts, bans, fs, saved, now, uuidCtr, san, rd>>

----------------------------------------------------------------------------
(* Bounds of the model *)

\* largest clock reading
MaxTime == 2

\* the submissions in flight at once (two workers serving one request each)
Subs == {1, 2}

\* longest content text given to the sanitizer
MaxLen == 3

----------------------------------------------------------------------------
(* Values *)

\* Option::None of an Option<Uuid>
NoUuid == -1

\* text of a thread_id form field that Uuid::parse_str rejects
GarbageText == -2

\* a well-formed UUID that names no thread (never produced by Uuid::now_v7)
BogusUuid == 0

\* Option::None of Post.media_id
NoMedia == <<>>

\* an upload that is a decodable image (first byte is an image magic byte)
PngBytes == <<137, 80>>

\* an upload that no image decoder accepts, one byte over the size cap
JunkBytes == <<7, 7, 7>>

\* the upload size cap (board settings.max_file_size, fallback 8 MiB), in bytes
\* of this model
MaxFileSize == 2

\* the file field is absent or empty
NoBytes == <<>>

FileInputs == {NoBytes, PngBytes, JunkBytes}

ContentTypes == {"image/png", "text/plain"}

ClientAddrs == {"1.2.3.4", "5.6.7.8"}

\* slugs a request path can carry; "zz" names no board
RequestSlugs == {"a", "b", "zz"}

BoardRows == { [id |-> 101, slug |-> "a"], [id |-> 102, slug |-> "b"] }

----------------------------------------------------------------------------
(* rb-storage-local: hashing and the sharded layout *)

HexDigits == <<"0","1","2","3","4","5","6","7","8","9","a","b","c","d","e","f">>

RECURSIVE Digest(_, _)
\* a 16-bit stand-in for the SHA-256 digest of data, folded over its bytes
Digest(data, acc) ==
    IF data = <<>> THEN acc
    ELSE Digest(Tail(data), (acc * 31 + Head(data) + 1) % 65536)

\* format!("{:x}", digest): lowercase hex digits, most significant first
LowerHex(d) ==
    << HexDigits[(d \div 4096) + 1], HexDigits[((d \div 256) % 16) + 1],
       HexDigits[((d \div 16) % 16) + 1], HexDigits[(d % 16) + 1] >>

\* the hash save_upload computes from the bytes alone (_content_type is unused)
Sha256Hex(data) == LowerHex(Digest(data, 7))

\* get_sharded_path: <root>/<h[0:2]>/<h[2:4]>/<h>
get_sharded_path(hash) == << SubSeq(hash, 1, 2), SubSeq(hash, 3, 4), hash >>

\* generate_thumbnail: <parent of source>/thumb_<h>.webp
thumb_path(source_path, hash) ==
    << source_path[1], source_path[2], <<"thumb_">> \o hash \o <<".webp">> >>

\* with_guessed_format().decode(): the format is sniffed from the bytes read
Decodes(content, data) == content = "complete" /\ data # <<>> /\ data[1] = 137

UploadHashes == { Sha256Hex(b) : b \in FileInputs \ {NoBytes} }

AllPaths ==
    { get_sharded_path(h) : h \in UploadHashes }
        \cup { thumb_path(get_sharded_path(h), h) : h \in UploadHashes }

----------------------------------------------------------------------------
(* rb-auth-simple *)

\* SimpleAuthProvider::check_ban: answers Ok(false) for every address
check_ban(ip) == FALSE

\* SimpleAuthProvider::new("your-secret-salt"): the salt, as bytes of this model
SessionSalt == <<5, 9>>

\* ip.as_bytes()
AddrBytes(ip) == IF ip = "1.2.3.4" THEN <<1, 2, 3, 4>> ELSE <<5, 6, 7, 8>>

\* thread_target.to_string().as_bytes()
UuidText(id) == <<id>>

\* hex::encode(hasher.finalize()): a 48-bit stand-in for the digest, as hex
HexEncode(data) ==
    LowerHex(Digest(data, 7)) \o LowerHex(Digest(data, 11)) \o LowerHex(Digest(data, 13))

\* generate_thread_id: the first 8 hex characters of H(salt || ip || thread_id)
generate_thread_id(salt, ip, thread_id) ==
    SubSeq(HexEncode(salt \o AddrBytes(ip) \o UuidText(thread_id)), 1, 8)

----------------------------------------------------------------------------
(* rb-db-sqlite: rows and statements *)

\* Uuid::parse_str on the text of the thread_id field
ParseUuid(text) == IF text >= 0 THEN text ELSE NoUuid

\* get_board: SELECT ... FROM boards WHERE slug = ?
get_board(slug) == { b \in boards : b.slug = slug }

\* posts.thread_id REFERENCES threads(id), checked by the INSERT
FkThreadExists(committed, thread_id) == \E t \in committed : t.id = thread_id

\* threads.board_id is a foreign key into boards
FkBoardExists(board_id) == \E b \in boards : b.id = board_id

\* execute(&self.pool): the statement commits on its own
AutoCommitInsert(committed, row) == committed \cup {row}

InsertOnPool(committed, row) == committed \cup {row}

\* create_thread runs its INSERTs on the transaction: the committed table
\* other connections read is untouched until tx.commit()
InsertInTx(committed, row) == committed

\* tx.commit(): the rows written in the transaction become visible together
DropTx(committed, tx_rows) == committed

CommitTx(committed, tx_rows) == committed \cup tx_rows

ThreadRow(id, board_id, last_bump) ==
    [ id |-> id, board_id |-> board_id, last_bump |-> last_bump,
      is_sticky |-> FALSE, is_locked |-> FALSE ]

PostRow(id, thread_id, user_id, media_id, is_op, created_at) ==
    [ id |-> id, thread_id |-> thread_id, user_id_in_thread |-> user_id, content |-> <<>>,
      media_id |-> media_id, is_op |-> is_op, created_at |-> created_at ]

----------------------------------------------------------------------------
(* rb-api handlers::create_post: locals *)

NoRow == {}

IdleSub ==
    [ pc |-> "idle", read_err |-> FALSE, client_ip |-> "", board_slug |-> "", content |-> <<>>,
      thread_id_from_form |-> NoUuid, image_bytes |-> NoBytes, content_type |-> "",
      hash |-> NoMedia, thumb_src |-> "absent", wrote |-> FALSE, after_ok |-> FALSE,
      media_id |-> NoMedia, is_new_thread |-> FALSE, thread_target |-> NoUuid,
      new_post |-> NoRow, new_thread |-> NoRow, tx_thread |-> NoRow, tx_post |-> NoRow,
      status |-> 0, failed_at |-> "" ]

RetryFromStart(r, code, where) == [ r EXCEPT !.pc = "ban" ]

\* the handler returns: the response is fixed and every open port call is over
Respond(r, code, where) ==
    [ r EXCEPT !.pc = "done", !.status = code, !.failed_at = where,
               !.tx_thread = NoRow, !.tx_post = NoRow, !.new_thread = NoRow,
               !.content_type = "", !.thumb_src = "absent" ]

IdentityOfPost(thread_target, post_id) == post_id

\* the thread the identity is derived for: thread_target
IdentityThread(thread_target, post_id) == thread_target

AlwaysTrue(flag) == TRUE

\* Post.is_op: is_new_thread
PostIsOp(is_new_thread) == is_new_thread

EpochTime(clock) == 0

\* Post.created_at / Thread.last_bump: Utc::now()
UtcNow(clock) == clock

NeverExists(content) == FALSE

\* target_path.exists()
PathExists(content) == content # "absent"

----------------------------------------------------------------------------
(* rb-api handlers::sanitize_content; texts are sequences of characters *)

\* the characters content texts are drawn from
Alphabet == {"a", "<", ">", "&", "\"", "'", "/", "\n"}

Texts == UNION { [1..n -> Alphabet] : n \in 0..MaxLen }

\* html_escape::encode_text escapes only & < >
encode_text_char(c) ==
    CASE c = "&" -> <<"&", "a", "m", "p", ";">>
      [] c = "<" -> <<"&", "l", "t", ";">>
      [] c = ">" -> <<"&", "g", "t", ";">>
      [] OTHER   -> <<c>>

\* html_escape::encode_safe, one character: & < > " ' / become entities
encode_safe_char(c) ==
    CASE c = "&"  -> <<"&", "a", "m", "p", ";">>
      [] c = "<"  -> <<"&", "l", "t", ";">>
      [] c = ">"  -> <<"&", "g", "t", ";">>
      [] c = "\"" -> <<"&", "q", "u", "o", "t", ";">>
      [] c = "'"  -> <<"&", "#", "x", "2", "7", ";">>
      [] c = "/"  -> <<"&", "#", "x", "2", "F", ";">>
      [] OTHER    -> <<c>>

RECURSIVE encode_safe(_)
\* html_escape::encode_safe(raw): each character replaced in place, left to
\* right (computed by halves to keep the evaluation shallow)
encode_safe(raw) ==
    IF raw = <<>> THEN <<>>
    ELSE IF Len(raw) = 1 THEN encode_safe_char(raw[1])
    ELSE LET half == Len(raw) \div 2 IN
         encode_safe(SubSeq(raw, 1, half)) \o encode_safe(SubSeq(raw, half + 1, Len(raw)))

\* a line ending "\r\n" loses its "\r" too
StripCr(line) ==
    IF line # <<>> /\ line[Len(line)] = "\r" THEN SubSeq(line, 1, Len(line) - 1) ELSE line

\* the positions of the line feeds of a text
LineFeeds(text) == { i \in 1..Len(text) : text[i] = "\n" }

\* the position of the k-th line feed; past the last one, the end of the text
LineEnd(text, k) ==
    IF k > Cardinality(LineFeeds(text)) THEN Len(text) + 1
    ELSE CHOOSE p \in LineFeeds(text) :
             Cardinality({ q \in LineFeeds(text) : q <= p }) = k

\* str::lines(): split at "\n"; a final line ending opens no further line
Lines(text) ==
    LET feeds == Cardinality(LineFeeds(text))
        count == IF text = <<>> \/ text[Len(text)] = "\n" THEN feeds ELSE feeds + 1
    IN  [ k \in 1..count |->
            LET from == IF k = 1 THEN 1 ELSE LineEnd(text, k - 1) + 1
                line == SubSeq(text, from, LineEnd(text, k) - 1)
            IN  IF k <= feeds THEN StripCr(line) ELSE line ]

StartsWith(text, prefix) ==
    Len(text) >= Len(prefix) /\ SubSeq(text, 1, Len(prefix)) = prefix

EscapedGt == <<"&", "g", "t", ";">>

SpanOpen ==
    <<"<", "s", "p", "a", "n", " ", "c", "l", "a", "s", "s", "=", "\"",
      "g", "r", "e", "e", "n", "t", "e", "x", "t", "\"", ">">>

SpanClose == <<"<", "/", "s", "p", "a", "n", ">">>

BrTag == <<"<", "b", "r", " ", "/", ">">>

\* the closure of .map(): a line that starts with "&gt;" is wrapped in the span
GreentextLine(line) ==
    IF StartsWith(line, EscapedGt) THEN SpanOpen \o line \o SpanClose ELSE line

RECURSIVE JoinTrailing(_, _)
JoinTrailing(lines, sep) ==
    IF lines = <<>> THEN <<>>
    ELSE IF Len(lines) = 1 THEN Head(lines) \o sep
    ELSE LET half == Len(lines) \div 2 IN
         JoinTrailing(SubSeq(lines, 1, half), sep)
             \o JoinTrailing(SubSeq(lines, half + 1, Len(lines)), sep)

RECURSIVE Join(_, _)
\* [String]::join: the separator stands between the lines only
Join(lines, sep) ==
    IF lines = <<>> THEN <<>>
    ELSE IF Len(lines) = 1 THEN Head(lines)
    ELSE LET half == Len(lines) \div 2 IN
         Join(SubSeq(lines, 1, half), sep) \o sep
             \o Join(SubSeq(lines, half + 1, Len(lines)), sep)

sanitize_content(raw) ==
    LET lines == Lines(encode_safe(raw)) IN
    Join([ i \in 1..Len(lines) |-> GreentextLine(lines[i]) ], BrTag)

NoText == [ pc |-> "none", raw |-> <<>>, once |-> <<>>, twice |-> <<>> ]

\* the chunks of the content field as they arrive: bytes that are UTF-8 text, or
\* bytes that are not (a broken sequence, a character cut by the chunk boundary)
TextChunk(text) == [ valid |-> TRUE, text |-> text ]

BrokenChunk == [ valid |-> FALSE, text |-> <<>> ]

\* the content fields a client sends: none, one of text, one that is not UTF-8
ContentInputs == { <<>>, << TextChunk(<<">", "<">>) >>, << BrokenChunk >> }

\* std::str::from_utf8(&chunk).unwrap_or_default()
Utf8OrDefault(chunk) == IF chunk.valid THEN chunk.text ELSE <<>>

RECURSIVE PushChunks(_, _)
\* content.push_str(..) for each chunk of the field
PushChunks(content, chunks) ==
    IF chunks = <<>> THEN content
    ELSE PushChunks(content \o Utf8OrDefault(Head(chunks)), Tail(chunks))

RawContent(content) == content

\* Post.content: sanitize_content(&content)
PostContent(content) == sanitize_content(content)

NoRead ==
    [ pc |-> "none", board_id |-> NoUuid, thread_id |-> NoUuid, limit |-> 0, offset |-> 0,
      rows |-> <<>>, second |-> <<>>, both |-> <<>>, found |-> FALSE, thread |-> NoRow ]

----------------------------------------------------------------------------
(* The database file and the upload root outlive the process: the boards are
   provisioned, and one thread with its OP post is already stored, locked by
   moderation or not.  The clock has been read once. *)
Init ==
    /\ sub = [ s \in Subs |-> IdleSub ]
    /\ boards = BoardRows
    /\ \E locked \in BOOLEAN :
          threads = { [ ThreadRow(1, 101, 1) EXCEPT !.is_locked = locked ] }
    /\ posts = { PostRow(2, 1, generate_thread_id(SessionSalt, "5.6.7.8", 1),
                          NoMedia, TRUE, 1) }
    /\ bans = {"1.2.3.4"}
    /\ fs = [ p \in AllPaths |-> "absent" ]
    /\ saved = {}
    /\ now = 1
    /\ uuidCtr = 2
    /\ san = NoText
    /\ rd = NoRead

----------------------------------------------------------------------------
(* handlers::create_post, step 1: the multipart stream is drained.  A client
   can name in thread_id a thread it has seen (a committed row), or any other
   UUID; the ids Uuid::now_v7 will produce later cannot be guessed.  The stream
   ends with None or with an error (a broken body, a dropped connection): both
   leave the `while let Ok(Some(..))` loops with what was read so far. *)
Receive(s) ==
    /\ sub[s].pc = "idle"
    /\ \E ip \in ClientAddrs, bytes \in FileInputs, read_ok \in BOOLEAN,
          text \in {NoUuid, GarbageText, BogusUuid} \cup { t.id : t \in threads } :
         \E ctype \in IF bytes = NoBytes THEN {""} ELSE ContentTypes :
            sub' = [ sub EXCEPT ![s] =
                       [ IdleSub EXCEPT !.pc = "ban", !.client_ip = ip,
                                        !.read_err = ~read_ok,
                                        !.thread_id_from_form = ParseUuid(text),
                                        !.image_bytes = bytes, !.content_type = ctype ] ]
    /\ UNCHANGED <<boards, threads, posts, bans, fs, saved, now, uuidCtr>>

(* steps 2 and 3: the ban check; then save_upload is entered when a file came.
   The error of the stream was dropped by the loop pattern and is not looked at. *)
BanCheck(s) ==
    LET r == [ sub[s] EXCEPT !.read_err = FALSE ] IN
    /\ r.pc = "ban"
    /\ sub' = [ sub EXCEPT ![s] =
                  IF check_ban(r.client_ip)
                  THEN Respond(r, 403, "ban")
                  ELSE IF r.image_bytes # NoBytes
                       THEN LET h == Sha256Hex(r.image_bytes) IN
                            [ r EXCEPT !.pc = "sv_mkdir", !.hash = h,
                                       !.after_ok = (h \in saved) ]
                       ELSE [ r EXCEPT !.pc = "board", !.media_id = NoMedia ] ]
    /\ UNCHANGED <<boards, threads, posts, bans, fs, saved, now, uuidCtr>>

SaveLost(r) == [ r EXCEPT !.pc = "board", !.media_id = NoMedia, !.content_type = "",
                          !.thumb_src = "absent" ]

\* save_upload returns Ok(hash) to the handler
SaveOk(r) == [ r EXCEPT !.pc = "board", !.media_id = r.hash, !.content_type = "",
                        !.thumb_src = "absent" ]

(* save_upload: create_dir_all, then the existence check of the target *)
SaveMkdir(s) ==
    LET r == sub[s]
        target == get_sharded_path(r.hash) IN
    /\ r.pc = "sv_mkdir"
    /\ \E ok \in BOOLEAN :
         IF ~ok
         THEN /\ sub' = [ sub EXCEPT ![s] = Respond(r, 500, "mkdir") ]
              /\ UNCHANGED saved
         ELSE IF PathExists(fs[target])
              THEN /\ sub' = [ sub EXCEPT ![s] = SaveOk(r) ]
                   /\ saved' = saved \cup {r.hash}
              ELSE /\ sub' = [ sub EXCEPT ![s].pc = "sv_write" ]
                   /\ UNCHANGED saved
    /\ UNCHANGED <<boards, threads, posts, bans, fs, now, uuidCtr>>

(* fs::write, first half: the target is created or truncated *)
SaveWriteOpen(s) ==
    LET r == sub[s]
        target == get_sharded_path(r.hash) IN
    /\ r.pc = "sv_write"
    /\ fs' = [ fs EXCEPT ![target] = "partial" ]
    /\ sub' = [ sub EXCEPT ![s].pc = "sv_write2", ![s].wrote = TRUE ]
    /\ UNCHANGED <<boards, threads, posts, bans, saved, now, uuidCtr>>

(* fs::write, second half: all bytes are written, or the write fails *)
SaveWriteFinish(s) ==
    LET r == sub[s]
        target == get_sharded_path(r.hash) IN
    /\ r.pc = "sv_write2"
    /\ \E ok \in BOOLEAN :
         IF ok
         THEN /\ fs' = [ fs EXCEPT ![target] = "complete" ]
              /\ sub' = [ sub EXCEPT ![s].pc = "th_read" ]
         ELSE /\ sub' = [ sub EXCEPT ![s] = Respond(r, 500, "write") ]
              /\ UNCHANGED fs
    /\ UNCHANGED <<boards, threads, posts, bans, saved, now, uuidCtr>>

(* generate_thumbnail: fs::read of the source *)
ThumbRead(s) ==
    LET r == sub[s]
        target == get_sharded_path(r.hash) IN
    /\ r.pc = "th_read"
    /\ sub' = [ sub EXCEPT ![s].pc = "th_save", ![s].thumb_src = fs[target] ]
    /\ UNCHANGED <<boards, threads, posts, bans, fs, saved, now, uuidCtr>>

(* generate_thumbnail: decode, scale, save_with_format *)
ThumbSave(s) ==
    LET r == sub[s]
        target == get_sharded_path(r.hash) IN
    /\ r.pc = "th_save"
    /\ \E ok \in BOOLEAN :
         IF ok /\ Decodes(r.thumb_src, r.image_bytes)
         THEN /\ fs' = [ fs EXCEPT ![thumb_path(target, r.hash)] = "complete" ]
              /\ sub' = [ sub EXCEPT ![s] = SaveOk(r) ]
              /\ saved' = saved \cup {r.hash}
         ELSE /\ sub' = [ sub EXCEPT ![s] = Respond(r, 500, "thumbnail") ]
              /\ UNCHANGED <<fs, saved>>
    /\ UNCHANGED <<boards, threads, posts, bans, now, uuidCtr>>

(* steps 4 to 7: get_board, thread selection, the Post and the Thread are built.
   The slug and the content text were received in step 1 and are first used
   here. *)
BoardLookup(s) ==
    LET r == sub[s] IN
    /\ r.pc = "board"
    /\ \E ok \in BOOLEAN, slug \in RequestSlugs, chunks \in ContentInputs :
         LET found   == get_board(slug)
             content == PushChunks(<<>>, chunks) IN
         IF ~ok \/ found = {}
         THEN /\ sub' = [ sub EXCEPT ![s] =
                           Respond([ r EXCEPT !.board_slug = slug ], 404,
                                   IF ok THEN "board" ELSE "board_err") ]
              /\ UNCHANGED <<now, uuidCtr>>
         ELSE \E board \in found, t \in { c \in {now, now + 1} : c <= MaxTime } :
              LET is_new_thread == (r.thread_id_from_form = NoUuid)
                  thread_target == IF is_new_thread THEN uuidCtr + 1
                                   ELSE r.thread_id_from_form
                  post_id       == IF is_new_thread THEN uuidCtr + 2 ELSE uuidCtr + 1
                  user_id       == generate_thread_id(SessionSalt, r.client_ip,
                                       IdentityThread(thread_target, post_id))
                  new_post      == [ PostRow(post_id, thread_target, user_id, r.media_id,
                                             PostIsOp(is_new_thread), UtcNow(t))
                                       EXCEPT !.content = PostContent(content) ]
                  new_thread    == ThreadRow(thread_target, board.id, UtcNow(t))
              IN
              /\ now' = t
              /\ uuidCtr' = post_id
              /\ sub' = [ sub EXCEPT ![s] =
                           [ r EXCEPT !.pc = IF is_new_thread THEN "ct_thread" ELSE "cp_insert",
                                      !.board_slug = slug,
                                      !.content = content,
                                      !.is_new_thread = is_new_thread,
                                      !.thread_target = thread_target,
                                      !.new_post = {new_post},
                                      !.new_thread = IF is_new_thread THEN {new_thread}
                                                     ELSE NoRow ] ]
    /\ UNCHANGED <<boards, threads, posts, bans, fs, saved>>

(* create_thread: pool.begin() and the INSERT INTO threads, on the transaction *)
CtInsertThread(s) ==
    LET r == sub[s] IN
    /\ r.pc = "ct_thread"
    /\ \E ok \in BOOLEAN :
         IF ok /\ \A row \in r.new_thread : FkBoardExists(row.board_id)
         THEN \E row \in r.new_thread :
              /\ threads' = InsertInTx(threads, row)
              /\ sub' = [ sub EXCEPT ![s].pc = "ct_post", ![s].tx_thread = {row} ]
         ELSE /\ sub' = [ sub EXCEPT ![s] = Respond(r, 500, "ct_thread") ]
              /\ UNCHANGED threads
    /\ UNCHANGED <<boards, posts, bans, fs, saved, now, uuidCtr>>

(* create_thread: the INSERT INTO posts, on the transaction; an error drops the
   transaction, which rolls it back *)
CtInsertPost(s) ==
    LET r == sub[s] IN
    /\ r.pc = "ct_post"
    /\ \E ok \in BOOLEAN :
         IF ok /\ \A row \in r.new_post :
                      FkThreadExists(threads \cup r.tx_thread, row.thread_id)
         THEN \E row \in r.new_post :
              /\ posts' = InsertInTx(posts, row)
              /\ sub' = [ sub EXCEPT ![s].pc = "ct_commit", ![s].tx_post = {row} ]
         ELSE /\ sub' = [ sub EXCEPT ![s] = Respond(r, 500, "ct_post") ]
              /\ UNCHANGED posts
    /\ UNCHANGED <<boards, threads, bans, fs, saved, now, uuidCtr>>

(* create_thread: tx.commit(); then the handler answers 303 *)
CtCommit(s) ==
    LET r == sub[s] IN
    /\ r.pc = "ct_commit"
    /\ \E ok \in BOOLEAN :
         IF ok
         THEN /\ threads' = CommitTx(threads, r.tx_thread)
              /\ posts' = CommitTx(posts, r.tx_post)
              /\ sub' = [ sub EXCEPT ![s] = Respond(r, 303, "") ]
         ELSE /\ sub' = [ sub EXCEPT ![s] = Respond(r, 500, "ct_commit") ]
              /\ UNCHANGED <<threads, posts>>
    /\ UNCHANGED <<boards, bans, fs, saved, now, uuidCtr>>

(* create_post of the repository: one INSERT INTO posts on the pool; then the
   handler answers 303 *)
CpInsert(s) ==
    LET r == sub[s] IN
    /\ r.pc = "cp_insert"
    /\ \E ok \in BOOLEAN :
         IF ok /\ FkThreadExists(threads, r.thread_target)
         THEN \E row \in r.new_post :
              /\ posts' = AutoCommitInsert(posts, row)
              /\ sub' = [ sub EXCEPT ![s] = Respond(r, 303, "") ]
         ELSE /\ sub' = [ sub EXCEPT ![s] = Respond(r, 500, "cp_insert") ]
              /\ UNCHANGED posts
    /\ UNCHANGED <<boards, threads, bans, fs, saved, now, uuidCtr>>

----------------------------------------------------------------------------
Next ==
    /\ UNCHANGED <<san, rd>>
    /\ \E s \in Subs :
            \/ Receive(s)
            \/ BanCheck(s)
            \/ SaveMkdir(s)
            \/ SaveWriteOpen(s)
            \/ SaveWriteFinish(s)
            \/ ThumbRead(s)
            \/ ThumbSave(s)
            \/ BoardLookup(s)
            \/ CtInsertThread(s)
            \/ CtInsertPost(s)
            \/ CtCommit(s)
            \/ CpInsert(s)

Spec == Init /\ [][Next]_vars

\* the steps of one submission after its request has arrived
Proceed(s) ==
    /\ UNCHANGED <<san, rd>>
    /\ \/ BanCheck(s)
       \/ SaveMkdir(s)
       \/ SaveWriteOpen(s)
       \/ SaveWriteFinish(s)
       \/ ThumbRead(s)
       \/ ThumbSave(s)
       \/ BoardLookup(s)
       \/ CtInsertThread(s)
       \/ CtInsertPost(s)
       \/ CtCommit(s)
       \/ CpInsert(s)

\* One submission followed to its end.  No step of a submission waits for
\* another submission (each is enabled by its own position alone), so the
\* other worker is left idle here.
LiveSubs == {1}

NextLive ==
    \E s \in LiveSubs :
        \/ UNCHANGED <<san, rd>> /\ Receive(s)
        \/ Proceed(s)

\* the runtime keeps polling a handler whose awaited call has returned
SpecLive == Init /\ [][NextLive]_vars /\ \A s \in LiveSubs : WF_vars(Proceed(s))

----------------------------------------------------------------------------
(* BoardRepo::create_thread on its own: a caller hands it any thread and any
   post, also ones the handler never builds *)

\* a board id no board has
UnknownBoard == 999

InitCreateThread ==
    /\ boards = BoardRows
    /\ \E locked \in BOOLEAN :
          threads = { [ ThreadRow(1, 101, 1) EXCEPT !.is_locked = locked ] }
    /\ posts = { PostRow(2, 1, generate_thread_id(SessionSalt, "5.6.7.8", 1),
                          NoMedia, TRUE, 1) }
    /\ \E board_id \in { b.id : b \in BoardRows } \cup {UnknownBoard},
          post_thread \in {3, 1, BogusUuid}, is_op \in BOOLEAN, t \in 1..MaxTime :
          LET thread  == ThreadRow(3, board_id, t)
              op_post == PostRow(4, post_thread,
                                 generate_thread_id(SessionSalt, "1.2.3.4", post_thread),
                                 NoMedia, is_op, t)
          IN  sub = [ s \in Subs |->
                        IF s = 1
                        THEN [ IdleSub EXCEPT !.pc = "ct_thread", !.is_new_thread = TRUE,
                                              !.thread_target = thread.id,
                                              !.new_thread = {thread}, !.new_post = {op_post} ]
                        ELSE IdleSub ]
    /\ bans = {}
    /\ fs = [ p \in AllPaths |-> "absent" ]
    /\ saved = {}
    /\ now = MaxTime
    /\ uuidCtr = 4
    /\ san = NoText
    /\ rd = NoRead

NextCreateThread ==
    /\ UNCHANGED <<san, rd>>
    /\ \E s \in Subs :
            \/ CtInsertThread(s)
            \/ CtInsertPost(s)
            \/ CtCommit(s)

SpecCreateThread == InitCreateThread /\ [][NextCreateThread]_vars

----------------------------------------------------------------------------
(* sanitize_content on its own: every text up to MaxLen, sanitized once and then
   once more *)

Idle ==
    /\ sub = [ s \in Subs |-> IdleSub ]
    /\ boards = BoardRows
    /\ threads = {}
    /\ posts = {}
    /\ bans = {}
    /\ fs = [ p \in AllPaths |-> "absent" ]
    /\ saved = {}
    /\ now = 1
    /\ uuidCtr = 0

InitSanitize ==
    /\ Idle
    /\ \E raw \in Texts : san = [ NoText EXCEPT !.pc = "raw", !.raw = raw ]
    /\ rd = NoRead

SanitizeOnce ==
    /\ san.pc = "raw"
    /\ san' = [ san EXCEPT !.pc = "once", !.once = sanitize_content(san.raw) ]
    /\ UNCHANGED <<sub, boards, threads, posts, bans, fs, saved, now, uuidCtr, rd>>

SanitizeAgain ==
    /\ san.pc = "once"
    /\ san' = [ san EXCEPT !.pc = "twice", !.twice = sanitize_content(san.once) ]
    /\ UNCHANGED <<sub, boards, threads, posts, bans, fs, saved, now, uuidCtr, rd>>

NextSanitize == SanitizeOnce \/ SanitizeAgain

SpecSanitize == InitSanitize /\ [][NextSanitize]_vars

----------------------------------------------------------------------------
(* Reading the state *)

ThreadVisible(id) == \E t \in threads : t.id = id

OpPostsOf(id) == { p \in posts : p.thread_id = id /\ p.is_op }

RepliesOf(id) == { p \in posts : p.thread_id = id /\ ~p.is_op }

\* the submission is inside save_upload for this hash
InSave(s, h) ==
    /\ sub[s].pc \in {"sv_mkdir", "sv_write", "sv_write2", "th_read", "th_save"}
    /\ sub[s].hash = h

OriginalOf(h) == fs[get_sharded_path(h)]

ThumbnailOf(h) == fs[thumb_path(get_sharded_path(h), h)]

----------------------------------------------------------------------------
(* Claims *)

\* C1: create_thread is atomic. In every reachable state, for every call of
\* create_thread (also one cut short by a fault between the thread insert and
\* the post insert), the thread row is visible to readers if and only if its
\* OP post row is visible.
C1_ThreadCreationAtomic ==
    \A s \in Subs :
        sub[s].is_new_thread =>
            ( ThreadVisible(sub[s].thread_target)
                <=> \E p \in sub[s].new_post : p \in posts )

\* C1 witness: a create_thread call whose thread insert succeeded and whose post
\* insert failed has returned, and neither row is visible.
C1_Witness ==
    \E s \in Subs :
        /\ sub[s].pc = "done" /\ sub[s].failed_at = "ct_post"
        /\ ~ThreadVisible(sub[s].thread_target)
        /\ sub[s].new_post \cap posts = {}

\* C2: OP-exists invariant. Every thread in the repository has exactly one post
\* with is_op = true, and every post with is_op = true references a thread that
\* is in the repository.
C2_OpExists ==
    /\ \A t \in threads : Cardinality(OpPostsOf(t.id)) = 1
    /\ \A p \in posts : p.is_op => ThreadVisible(p.thread_id)

\* C2 witness: the pipeline has committed a new thread and a reply.
C2_Witness ==
    /\ \E s \in Subs : sub[s].status = 303 /\ sub[s].is_new_thread
    /\ \E s \in Subs : sub[s].status = 303 /\ ~sub[s].is_new_thread

\* C3: the OP post is the earliest post of its thread: no stored reply has a
\* created_at earlier than the created_at of the OP post of the same thread.
C3_OpIsEarliest ==
    \A p \in posts : \A q \in OpPostsOf(p.thread_id) : q.created_at <= p.created_at

\* C3 witness: a reply is stored in a thread that another submission created.
C3_Witness ==
    \E s1, s2 \in Subs :
        /\ sub[s1].status = 303 /\ sub[s1].is_new_thread
        /\ sub[s2].status = 303 /\ ~sub[s2].is_new_thread
        /\ sub[s2].thread_target = sub[s1].thread_target

\* C4: a submission from a banned client address is answered 403 Forbidden and
\* never reaches the media store or a repository write.
C4_BannedClientRejected ==
    \A s \in Subs :
        sub[s].client_ip \in bans =>
            /\ sub[s].pc \in {"ban", "done"}
            /\ sub[s].pc = "done" => sub[s].status = 403

\* C5: a successful create_post(post) advances the parent thread's last_bump to
\* post.created_at: the step that stores a reply leaves the thread with
\* last_bump = created_at of that reply.
C5_ReplyBumpsThread ==
    [][ \A p \in posts' \ posts :
            ~p.is_op => \E t \in threads' : t.id = p.thread_id /\ t.last_bump = p.created_at
      ]_vars

\* C6: create_post on a locked thread inserts no post row: no reply is stored
\* in a thread whose is_locked is true.
C6_LockedThreadRejectsReply ==
    \A t \in threads : t.is_locked => RepliesOf(t.id) = {}

\* C7: thread selection. A submission is a reply exactly when its thread_id
\* field parsed and names an existing thread on the board of the request; in
\* every other case it is a new thread.
C7_ThreadSelection ==
    \A s \in Subs :
        sub[s].thread_target # NoUuid =>
            ( ~sub[s].is_new_thread
                <=> \E t \in threads, b \in get_board(sub[s].board_slug) :
                        /\ t.id = sub[s].thread_id_from_form
                        /\ t.board_id = b.id )

\* C8: thumbnail-failure rollback. Once a save has failed in thumbnail generation
\* and no other save of the same bytes is running, the original is absent from
\* its final path unless its thumbnail exists.
C8_ThumbnailFailureRollsBack ==
    \A s \in Subs :
        ( /\ sub[s].pc = "done" /\ sub[s].failed_at = "thumbnail"
          /\ \A o \in Subs : ~InSave(o, sub[s].hash) )
        => ( OriginalOf(sub[s].hash) = "absent" \/ ThumbnailOf(sub[s].hash) = "complete" )

\* C9: content addressing and dedup. The id save returns is the hex digest of
\* the bytes whatever the declared content type, and a save entered after a
\* save of the same bytes has succeeded writes nothing and, unless directory
\* creation itself fails, returns that same id.
C9_SaveIdempotent ==
    \A s \in Subs :
        /\ sub[s].media_id # NoMedia => sub[s].media_id = Sha256Hex(sub[s].image_bytes)
        /\ sub[s].after_ok =>
              /\ ~sub[s].wrote
              /\ sub[s].pc \in {"sv_mkdir", "board", "ct_thread", "ct_post", "ct_commit",
                                "cp_insert", "done"}
              /\ sub[s].media_id = NoMedia =>
                    sub[s].pc = "sv_mkdir" \/ sub[s].failed_at = "mkdir"

\* C9 witness: a second save of bytes already saved successfully has returned
\* its id.
C9_Witness ==
    \E s \in Subs : sub[s].after_ok /\ sub[s].media_id = Sha256Hex(sub[s].image_bytes)

\* C10: two concurrent saves of identical bytes (a decodable image). When one
\* of them returns success while the other is still inside save, the final
\* path holds the complete original and the thumbnail exists.
C10_ConcurrentSaveComplete ==
    [][ \A s \in Subs :
            ( /\ Decodes("complete", sub[s].image_bytes)
              /\ sub[s].media_id = NoMedia /\ sub'[s].media_id # NoMedia
              /\ \E o \in Subs \ {s} : InSave(o, sub[s].hash) )
            => ( /\ fs'[get_sharded_path(sub[s].hash)] = "complete"
                 /\ fs'[thumb_path(get_sharded_path(sub[s].hash), sub[s].hash)] = "complete" )
      ]_vars


\* C11: upload size cap. A file field whose cumulative byte count exceeds the
\* maximum is rejected with ValidationError (400): the submission never holds
\* an oversize buffer past the multipart stage, saves no media and writes no
\* row.
C11_UploadSizeCap ==
    \A s \in Subs :
        Len(sub[s].image_bytes) > MaxFileSize =>
            /\ sub[s].pc = "done" /\ sub[s].status = 400
            /\ ~sub[s].wrote /\ sub[s].media_id = NoMedia
            /\ sub[s].new_post = NoRow

\* the status the error taxonomy assigns to the place a submission ended at
ExpectedStatus(where) ==
    CASE where = ""      -> 303
      [] where = "ban"   -> 403
      [] where = "board" -> 404
      [] OTHER           -> 500

\* C12: every finished submission carries the status of its outcome: 303 on
\* success, 403 banned, 404 unknown board, 500 on a media or repository
\* failure, a repository failure during board lookup included.
C12_ErrorMapping ==
    \A s \in Subs : sub[s].pc = "done" => sub[s].status = ExpectedStatus(sub[s].failed_at)

\* C13: S6 at the pipeline level. When the post insert of create_thread fails
\* after the thread insert succeeded, the submission ends with 500, neither
\* row is visible afterwards, and the failing step changes nothing in the
\* media store.
C13_AtomicFailure ==
    /\ [] ( \A s \in Subs :
                sub[s].failed_at = "ct_post" =>
                    /\ sub[s].status = 500
                    /\ ~ThreadVisible(sub[s].thread_target)
                    /\ sub[s].new_post \cap posts = {} )
    /\ [][ \A s \in Subs :
                (sub[s].pc = "ct_post" /\ sub'[s].pc = "done") => fs' = fs ]_vars

\* C13 witness: the post insert failed in a submission that had saved a blob,
\* and the blob is still in place.
C13_Witness ==
    \E s \in Subs :
        /\ sub[s].failed_at = "ct_post" /\ sub[s].media_id # NoMedia
        /\ OriginalOf(sub[s].media_id) # "absent"

\* C14: is_banned(client_addr) is true exactly for the addresses that have an
\* unexpired entry in the ban set: a submission is turned away at the ban
\* check if and only if its client address is in the ban set.
C14_IsBanned ==
    \A s \in Subs :
        sub[s].pc \notin {"idle", "ban"} =>
            ( sub[s].failed_at = "ban" <=> sub[s].client_ip \in bans )

\* C17: identity stability. Any two posts stored in the same thread by the same
\* client address carry the same user_id_in_thread, OP or reply, and it has 8
\* characters.
C17_IdentityStable ==
    \A s1, s2 \in Subs :
        \A p1 \in sub[s1].new_post \cap posts, p2 \in sub[s2].new_post \cap posts :
            /\ Len(p1.user_id_in_thread) = 8
            /\ ( p1.thread_id = p2.thread_id /\ sub[s1].client_ip = sub[s2].client_ip )
                  => p1.user_id_in_thread = p2.user_id_in_thread

\* C17 witness: one client has an OP and a reply stored in the same thread.
C17_Witness ==
    \E s1, s2 \in Subs :
        /\ s1 # s2 /\ sub[s1].client_ip = sub[s2].client_ip
        /\ sub[s1].is_new_thread /\ ~sub[s2].is_new_thread
        /\ sub[s1].new_post \subseteq posts /\ sub[s2].new_post \subseteq posts
        /\ sub[s1].new_post # NoRow /\ sub[s2].new_post # NoRow
        /\ sub[s2].thread_target = sub[s1].thread_target


----------------------------------------------------------------------------
(* rb-db-sqlite reads: list_threads_paginated and get_thread against any stored
   set of threads and posts *)

ThreadIds == {1, 2, 3}

\* replies stored besides the opening posts, and the thread they belong to
ReplyIds == {21, 22}

ReplyTargets == {1}

Limits == {1, 2}

Offsets == {0, 1}

\* the opening post of thread t has id OpIdOf[t]
OpIdOf == [ t \in ThreadIds |-> t + 10 ]

\* all the orders in which the rows of a set can come back
Orders(rows) ==
    { f \in [1..Cardinality(rows) -> rows] : \A i, j \in DOMAIN f : i # j => f[i] # f[j] }

\* ORDER BY is_sticky DESC, last_bump DESC: a may come before b
StickyBumpOrdered(a, b) ==
    \/ a.is_sticky /\ ~b.is_sticky
    \/ a.is_sticky = b.is_sticky /\ a.last_bump >= b.last_bump

\* the orders the ORDER BY clause allows; rows equal in both keys come in any order
OrderByStickyBump(rows) ==
    { f \in Orders(rows) : \A i, j \in DOMAIN f : i < j => StickyBumpOrdered(f[i], f[j]) }

\* LIMIT ? OFFSET ?
LimitOffset(rows, limit, offset) ==
    SubSeq(rows, offset + 1, IF offset + limit < Len(rows) THEN offset + limit ELSE Len(rows))

\* the results list_threads_paginated can return
list_threads_paginated(board_id, limit, offset) ==
    { LimitOffset(f, limit, offset) :
        f \in OrderByStickyBump({ t \in threads : t.board_id = board_id }) }

\* the results the posts query of get_thread can return: it has no ORDER BY
PostsOfThread(thread_id) == Orders({ p \in posts : p.thread_id = thread_id })

InitRead ==
    /\ sub = [ s \in Subs |-> IdleSub ]
    /\ boards = BoardRows
    /\ \E board_of \in [ThreadIds -> { b.id : b \in BoardRows }],
          bump_of \in [ThreadIds -> 1..MaxTime],
          sticky_of \in [ThreadIds -> BOOLEAN],
          reply_at \in [ReplyIds -> 1..MaxTime],
          reply_to \in [ReplyIds -> ReplyTargets] :
          /\ threads = { [ ThreadRow(t, board_of[t], bump_of[t]) EXCEPT !.is_sticky = sticky_of[t] ] :
                           t \in ThreadIds }
          /\ posts = { PostRow(OpIdOf[t], t, generate_thread_id(SessionSalt, "1.2.3.4", t),
                               NoMedia, TRUE, 1) : t \in ThreadIds }
                     \cup
                     { PostRow(r, reply_to[r], generate_thread_id(SessionSalt, "5.6.7.8", reply_to[r]),
                               NoMedia, FALSE, reply_at[r]) : r \in ReplyIds }
    /\ bans = {}
    /\ fs = [ p \in AllPaths |-> "absent" ]
    /\ saved = {}
    /\ now = MaxTime
    /\ uuidCtr = 0
    /\ san = NoText
    /\ rd = [ NoRead EXCEPT !.pc = "idle" ]

\* one call of list_threads_paginated
ListThreads ==
    /\ rd.pc = "idle"
    /\ \E board_id \in { b.id : b \in BoardRows }, limit \in Limits, offset \in Offsets, ok \in BOOLEAN :
          IF ok
          THEN \E rows \in list_threads_paginated(board_id, limit, offset) :
                  rd' = [ rd EXCEPT !.pc = "list", !.board_id = board_id,
                                    !.limit = limit, !.offset = offset, !.rows = rows ]
          ELSE rd' = [ rd EXCEPT !.pc = "error" ]
    /\ UNCHANGED <<sub, boards, threads, posts, bans, fs, saved, now, uuidCtr, san>>

\* three calls with no write between them: (b, n, 0), (b, n, n) and (b, 2n, 0)
ListPages ==
    /\ rd.pc = "idle"
    /\ \E board_id \in { b.id : b \in BoardRows }, n \in Limits :
       \E first \in list_threads_paginated(board_id, n, 0),
          second \in list_threads_paginated(board_id, n, n),
          both \in list_threads_paginated(board_id, 2 * n, 0) :
          rd' = [ rd EXCEPT !.pc = "pages", !.board_id = board_id, !.limit = n,
                            !.rows = first, !.second = second, !.both = both ]
    /\ UNCHANGED <<sub, boards, threads, posts, bans, fs, saved, now, uuidCtr, san>>

\* one call of get_thread
GetThread ==
    /\ rd.pc = "idle"
    /\ \E thread_id \in ThreadIds \cup {BogusUuid}, ok \in BOOLEAN :
          LET t_row == { t \in threads : t.id = thread_id } IN
          IF ~ok THEN rd' = [ rd EXCEPT !.pc = "error" ]
          ELSE IF t_row = {}
          THEN rd' = [ rd EXCEPT !.pc = "thread", !.thread_id = thread_id, !.found = FALSE ]
          ELSE \E p_rows \in PostsOfThread(thread_id) :
                  rd' = [ rd EXCEPT !.pc = "thread", !.thread_id = thread_id, !.found = TRUE,
                                    !.thread = t_row, !.rows = p_rows ]
    /\ UNCHANGED <<sub, boards, threads, posts, bans, fs, saved, now, uuidCtr, san>>

NextRead == ListThreads \/ ListPages \/ GetThread

SpecRead == InitRead /\ [][NextRead]_vars

----------------------------------------------------------------------------
(* Claims about sanitize_content *)

\* the characters encode_safe replaces
Escapable == {"&", "<", ">", "\"", "'", "/"}

HasEscapable(text) == \E i \in 1..Len(text) : text[i] \in Escapable

\* C15 (as stated): sanitize(sanitize(x)) = sanitize(x) for every input x.
C15_SanitizeIdempotent ==
    san.pc = "twice" => san.twice = san.once

\* C15 (amended): sanitize(sanitize(x)) = sanitize(x) exactly for the inputs x
\* that hold none of & < > " ' / and have at most one line; for every other
\* input the second pass escapes the entities and tags of the first again.
C15_SanitizeIdempotentOnPlainLine ==
    san.pc = "twice" =>
        ( san.twice = san.once
            <=> ( ~HasEscapable(san.raw) /\ Len(Lines(san.raw)) <= 1 ) )

\* C15 witness: a plain one-line text, newline-terminated, has gone through both
\* passes unchanged by the second.
C15_Witness ==
    /\ san.pc = "twice" /\ san.raw = <<"a", "a", "\n">>
    /\ san.once = <<"a", "a">> /\ san.twice = san.once


\* what the sanitizer may emit around the text: its own tags and the entities
MarkupTokens ==
    { BrTag, SpanOpen, SpanClose,
      <<"&", "a", "m", "p", ";">>, <<"&", "l", "t", ";">>, <<"&", "g", "t", ";">>,
      <<"&", "q", "u", "o", "t", ";">>, <<"&", "#", "x", "2", "7", ";">>,
      <<"&", "#", "x", "2", "F", ";">> }

\* the characters that are markup to a browser
MarkupChars == {"<", ">", "\"", "'", "&"}

OccursAt(text, tok, j) ==
    j >= 1 /\ j + Len(tok) - 1 <= Len(text) /\ SubSeq(text, j, j + Len(tok) - 1) = tok

\* position i of text lies inside an occurrence of one of the tokens
InsideToken(text, i) ==
    \E tok \in MarkupTokens : \E j \in (i - Len(tok) + 1)..i : OccursAt(text, tok, j)

CountOf(text, c) == Cardinality({ i \in 1..Len(text) : text[i] = c })

\* the "<" the sanitizer itself puts out for a text: one per line break between
\* lines and two per line that starts with ">"
EmittedLt(raw) ==
    LET lines == Lines(raw)
        green == { k \in 1..Len(lines) : StartsWith(lines[k], <<">">>) }
    IN  (IF Len(lines) = 0 THEN 0 ELSE Len(lines) - 1) + 2 * Cardinality(green)

\* C16: in the output of sanitize every < > " ' & is part of a tag the
\* sanitizer emitted or of an entity, and the output has no "<" beyond those of
\* the emitted <br /> and <span class="greentext"> ... </span>.
C16_XssClosure ==
    san.pc \in {"once", "twice"} =>
        /\ \A i \in 1..Len(san.once) :
               san.once[i] \in MarkupChars => InsideToken(san.once, i)
        /\ CountOf(san.once, "<") = EmittedLt(san.raw)

\* C16 witness: a greentext line, a line break and a "<" went through one pass.
C16_Witness ==
    /\ san.pc = "once" /\ san.raw = <<">", "\n", "<">>
    /\ san.once = SpanOpen \o EscapedGt \o SpanClose \o BrTag \o <<"&", "l", "t", ";">>


----------------------------------------------------------------------------
(* Claims about the repository reads *)

\* the one order of a set of threads by (is_sticky DESC, last_bump DESC) with
\* ties by ascending thread id
ThreadsByIdUp(rows) ==
    CHOOSE f \in OrderByStickyBump(rows) :
        \A i, j \in DOMAIN f :
            (i < j /\ f[i].is_sticky = f[j].is_sticky /\ f[i].last_bump = f[j].last_bump)
                => f[i].id < f[j].id

\* the same with ties by descending thread id
ThreadsByIdDown(rows) ==
    CHOOSE f \in OrderByStickyBump(rows) :
        \A i, j \in DOMAIN f :
            (i < j /\ f[i].is_sticky = f[j].is_sticky /\ f[i].last_bump = f[j].last_bump)
                => f[i].id > f[j].id

\* C18: list_threads_paginated(board_id, limit, offset) returns only threads of
\* board_id, in the order (is_sticky DESC, last_bump DESC) with ties in thread
\* id order (ascending or descending), cut to the page.
C18_ListOrderedWithIdTies ==
    rd.pc = "list" =>
        LET matching == { t \in threads : t.board_id = rd.board_id } IN
        /\ \A i \in DOMAIN rd.rows : rd.rows[i].board_id = rd.board_id
        /\ \/ rd.rows = LimitOffset(ThreadsByIdUp(matching), rd.limit, rd.offset)
           \/ rd.rows = LimitOffset(ThreadsByIdDown(matching), rd.limit, rd.offset)

\* C19: with no write between the calls, the page at offset 0 followed by the
\* page at offset n is the listing of 2n threads at offset 0.
C19_PagesConcatenate ==
    rd.pc = "pages" => rd.rows \o rd.second = rd.both

\* C20: get_thread(id) returns nothing when no thread has that id; otherwise
\* the thread and exactly its posts, ordered by created_at ascending with ties
\* in ascending post id order.
C20_GetThreadOrdered ==
    rd.pc = "thread" =>
        /\ rd.found <=> ThreadVisible(rd.thread_id)
        /\ rd.found =>
              /\ rd.thread = { t \in threads : t.id = rd.thread_id }
              /\ { rd.rows[i] : i \in DOMAIN rd.rows } = { p \in posts : p.thread_id = rd.thread_id }
              /\ Len(rd.rows) = Cardinality({ p \in posts : p.thread_id = rd.thread_id })
              /\ \A i, j \in DOMAIN rd.rows :
                    i < j => \/ rd.rows[i].created_at < rd.rows[j].created_at
                             \/ /\ rd.rows[i].created_at = rd.rows[j].created_at
                                /\ rd.rows[i].id < rd.rows[j].id


----------------------------------------------------------------------------
(* Claims about the course of one submission *)

\* C21: an error at any step ends the submission with an error response and no
\* later step of it runs: after a read error of the multipart stream the next
\* step of the submission is its error response, and a submission that failed
\* anywhere is over, was not answered 303 and has stored no post.
C21_ErrorTerminates ==
    /\ [][ \A s \in Subs :
             (sub[s].pc = "ban" /\ sub[s].read_err /\ sub'[s] # sub[s])
                 => (sub'[s].pc = "done" /\ sub'[s].status \in {400, 500}) ]_vars
    /\ [] ( \A s \in Subs : sub[s].failed_at # "" =>
               /\ sub[s].pc = "done" /\ sub[s].status # 303
               /\ sub[s].new_post \cap posts = {} )


\* C22: the final sharded path of a hash never holds anything but the complete
\* bytes with that hash: it is absent or complete in every state, whether a
\* save is under way, was aborted or has failed.
C22_NoPartialAtFinalPath ==
    \A h \in UploadHashes : OriginalOf(h) \in {"absent", "complete"}


\* C23: a submission is answered 303 only once its rows are stored: the thread
\* thread_target exists, the one post of the submission is stored with that
\* thread_id, and the answering step added exactly that post and, in new-thread
\* mode, exactly the thread thread_target (no thread in reply mode); no other
\* step of a submission adds a row.
C23_RedirectAfterPersist ==
    /\ [] ( \A s \in Subs : sub[s].status = 303 =>
               /\ ThreadVisible(sub[s].thread_target)
               /\ Cardinality(sub[s].new_post) = 1
               /\ sub[s].new_post \subseteq posts
               /\ \A p \in sub[s].new_post : p.thread_id = sub[s].thread_target )
    /\ [][ \A s \in Subs : sub'[s] # sub[s] =>
             IF sub'[s].status = 303
             THEN /\ sub[s].new_post \cap posts = {}
                  /\ posts' = posts \cup sub[s].new_post
                  /\ IF sub[s].is_new_thread
                     THEN /\ ~ThreadVisible(sub[s].thread_target)
                          /\ Cardinality(threads' \ threads) = 1
                          /\ \A t \in threads' \ threads : t.id = sub[s].thread_target
                     ELSE threads' = threads
             ELSE posts' = posts /\ threads' = threads ]_vars

\* C23 witness: one submission opened a thread and another replied to a thread,
\* and both were answered 303.
C23_Witness ==
    \E s1, s2 \in Subs :
        /\ sub[s1].status = 303 /\ sub[s1].is_new_thread
        /\ sub[s2].status = 303 /\ ~sub[s2].is_new_thread
        /\ sub[s1].new_post \subseteq posts /\ sub[s2].new_post \subseteq posts


\* C24: two replies submitted at the same time to one existing, unlocked thread
\* both land: once both are answered 303, both posts are stored as distinct
\* rows and last_bump of the thread is the created_at of one of them.
C24_ConcurrentRepliesLand ==
    \A s1, s2 \in Subs : \A t \in threads :
        ( /\ s1 # s2 /\ ~t.is_locked
          /\ sub[s1].status = 303 /\ ~sub[s1].is_new_thread /\ sub[s1].thread_target = t.id
          /\ sub[s2].status = 303 /\ ~sub[s2].is_new_thread /\ sub[s2].thread_target = t.id )
        => /\ sub[s1].new_post \subseteq posts /\ sub[s2].new_post \subseteq posts
           /\ sub[s1].new_post # sub[s2].new_post
           /\ \E p \in sub[s1].new_post \cup sub[s2].new_post : t.last_bump = p.created_at


----------------------------------------------------------------------------
(* Claims about create_thread as a repository operation *)

\* the preconditions of create_thread on the arguments a caller holds
CreateThreadPrecondition(r) ==
    \A t \in r.new_thread, p \in r.new_post :
        p.thread_id = t.id /\ p.is_op /\ (\E b \in boards : b.id = t.board_id)

\* C25: create_thread rejects a call whose op_post.thread_id is not thread.id,
\* whose op_post.is_op is false or whose thread.board_id names no board, and
\* leaves the repository as it was.
C25_CreateThreadValidates ==
    [][ \A s \in Subs :
          ( /\ sub[s].pc \in {"ct_thread", "ct_post", "ct_commit"}
            /\ sub'[s].pc = "done"
            /\ ~CreateThreadPrecondition(sub[s]) )
          => /\ sub'[s].status # 303
             /\ threads' = threads /\ posts' = posts ]_vars


\* C26: the content of every post a submission stored is sanitize of the
\* content text it came with, and its media_id is absent when no file bytes
\* came (save was not entered) and otherwise the hash of those bytes, which a
\* save has returned.
C26_StoredContentSanitized ==
    \A s \in Subs : \A p \in sub[s].new_post \cap posts :
        /\ p.content = sanitize_content(sub[s].content)
        /\ IF sub[s].image_bytes = NoBytes
           THEN p.media_id = NoMedia /\ sub[s].hash = NoMedia /\ ~sub[s].wrote
           ELSE /\ p.media_id = Sha256Hex(sub[s].image_bytes)
                /\ p.media_id = sub[s].hash
                /\ p.media_id \in saved

\* C26 witness: a stored post whose content text held markup and that came
\* with a file.
C26_Witness ==
    \E s \in Subs : \E p \in sub[s].new_post \cap posts :
        /\ sub[s].content = <<">", "<">>
        /\ p.content = SpanOpen \o <<"&", "g", "t", ";", "&", "l", "t", ";">> \o SpanClose
        /\ p.media_id # NoMedia /\ p.media_id \in saved


\* C27: a submission to a slug no board has is answered 404 and writes nothing
\* to the repository, but its file, when one came, was already saved: the
\* answering step leaves threads and posts alone, and the original of the file
\* is at its sharded path when the 404 is given.
C27_UnknownBoardMediaSaved ==
    /\ [] ( \A s \in Subs : sub[s].failed_at = "board" =>
               /\ sub[s].status = 404
               /\ get_board(sub[s].board_slug) = {}
               /\ sub[s].new_post = NoRow
               /\ sub[s].image_bytes # NoBytes =>
                     /\ sub[s].media_id = Sha256Hex(sub[s].image_bytes)
                     /\ sub[s].media_id \in saved
                     /\ OriginalOf(sub[s].media_id) # "absent" )
    /\ [][ \A s \in Subs :
             (sub[s].pc = "board" /\ sub'[s].failed_at = "board")
                 => (threads' = threads /\ posts' = posts) ]_vars

\* C27 witness: a 404 for an unknown slug was given to a submission whose file
\* this very submission wrote to the store.
C27_Witness ==
    \E s \in Subs :
        /\ sub[s].failed_at = "board" /\ sub[s].board_slug = "zz"
        /\ sub[s].wrote /\ OriginalOf(sub[s].media_id) = "complete"


\* the stage of the submission state machine a handler position belongs to:
\* Received, ContentRead, BanChecked and saving, MediaPersisted, BoardResolved
\* and persisting, ended
StageOf(pc) ==
    CASE pc = "idle" -> 0
      [] pc = "ban" -> 1
      [] pc \in {"sv_mkdir", "sv_write", "sv_write2", "th_read", "th_save"} -> 2
      [] pc = "board" -> 3
      [] pc \in {"ct_thread", "ct_post", "ct_commit", "cp_insert"} -> 4
      [] OTHER -> 5

\* C28: every submission that has arrived ends, with one outcome that does not
\* change afterwards (303, 403 for a ban, or an error status), and it moves
\* through the stages in their order without going back.
C28_Terminates ==
    /\ \A s \in Subs : (sub[s].pc # "idle") ~> (sub[s].pc = "done")
    /\ [] ( \A s \in Subs : sub[s].pc = "done" <=> sub[s].status \in {303, 403, 404, 500} )
    /\ [][ \A s \in Subs :
             /\ StageOf(sub'[s].pc) >= StageOf(sub[s].pc)
             /\ sub[s].pc = "done" => sub'[s] = sub[s] ]_vars

\* C28 witness: a submission has gone through every stage and was answered 303
\* after saving a file.
C28_Witness ==
    \E s \in Subs : sub[s].pc = "done" /\ sub[s].status = 303 /\ sub[s].wrote

====
